---- MODULE Spec2Model ----
(***************************************************************************)
(* Model of src/app.py: the subtitle formatter (remove_punctuation,        *)
(* format_time, convert_zh_text, generate_srt) and the upload / edit /     *)
(* export pipeline of main().                                              *)
(*                                                                         *)
(* Text is a sequence of one-character strings.  Characters outside ASCII  *)
(* (and the backquote) are written by their code point: "uFF0C" is the     *)
(* fullwidth comma.                                                        *)
(* A Python float is a pair (s, f): s whole seconds (floor) and f the      *)
(* fraction in ticks, TicksPerMicro ticks to the microsecond, so that      *)
(* values finer than timedelta's resolution can be told apart.  Floats are *)
(* exact decimal values here; the binary rounding of a literal is not      *)
(* modelled.                                                               *)
(***************************************************************************)
EXTENDS Integers, Sequences, FiniteSets, TLC

VARIABLES
    convOk,          \* load_converters() returned two converters (not None, None)
    args,            \* arguments of the calls of the function under study
    ret,             \* results of the calls made so far
    pc,              \* position of main() in the upload pipeline
    result,          \* the segments returned by model.transcribe
    options,         \* sidebar choices: lang_option, use_bilingual
    tempFile,        \* state of the temporary audio file
    segments_raw,    \* segments extracted from the recognition result
    edits,           \* contents of the time and text inputs of each row
    edited_segments, \* segments appended by the edit loop
    warnings,        \* rows for which st.warning was shown
    srt_content      \* the exported document

vars == <<convOk, args, ret, pc, result, options, tempFile,
          segments_raw, edits, edited_segments, warnings, srt_content>>

pureVars == <<args, ret>>
mainVars == <<pc, result, options, tempFile, segments_raw, edits,
              edited_segments, warnings, srt_content>>

(***************************************************************************)
(* Bounds                                                                  *)
(***************************************************************************)
TicksPerMicro == 4
MaxLen == 3
MaxSegs == 2

(***************************************************************************)
(* Strings                                                                 *)
(***************************************************************************)
SetMin(S) == CHOOSE m \in S : \A n \in S : m <= n
SetMax(S) == CHOOSE m \in S : \A n \in S : n <= m

Digits == <<"0", "1", "2", "3", "4", "5", "6", "7", "8", "9">>

DigitChar(d) == Digits[d + 1]

IsDigit(c) == \E d \in 0..9 : Digits[d + 1] = c

DigitVal(c) == CHOOSE d \in 0..9 : Digits[d + 1] = c

Pow10(k) == <<1, 10, 100, 1000, 10000, 100000, 1000000, 10000000, 100000000,
              1000000000>>[k + 1]

NumDigits(n) == CHOOSE d \in 1..9 : n < Pow10(d) /\ (d = 1 \/ n >= Pow10(d - 1))

DigitsOf(n, d) == [i \in 1..d |-> DigitChar((n \div Pow10(d - i)) % 10)]

\* str(n) for 0 <= n < 10^9
NatToStr(n) == DigitsOf(n, NumDigits(n))

RECURSIVE SeqSum(_)
SeqSum(s) == IF s = <<>> THEN 0 ELSE Head(s) + SeqSum(Tail(s))

\* int(s) for a text of digits
StrToNat(s) == SeqSum([i \in 1..Len(s) |-> DigitVal(s[i]) * Pow10(Len(s) - i)])

ZeroPad(s, w) == IF Len(s) >= w THEN s ELSE [i \in 1..(w - Len(s)) |-> "0"] \o s

\* the fields written without a minimum width: f"{n}"
FmtD_NoPad(n, w) == NatToStr(n)

\* f"{n:02d}" / f"{n:03d}" for n >= 0
FmtD(n, w) == ZeroPad(NatToStr(n), w)

AllDigits(s) == \A i \in 1..Len(s) : IsDigit(s[i])

\* characters matched by \s and removed by str.strip()
Whitespace == {" ", "\t", "\n", "\r", "u3000"}

Between(s, keep) == IF keep = {} THEN <<>> ELSE SubSeq(s, SetMin(keep), SetMax(keep))

\* s.strip()
Strip(s) == Between(s, {i \in 1..Len(s) : s[i] \notin Whitespace})

(***************************************************************************)
(* Python values and results                                               *)
(***************************************************************************)
Ok(v) == [ok |-> TRUE, val |-> v, exc |-> "none"]
Raise(e) == [ok |-> FALSE, val |-> <<>>, exc |-> e]

TicksPerSecond == 1000000 * TicksPerMicro

\* a finite float inside timedelta's range: s + f / TicksPerSecond seconds
Fin(s, f) == [ty |-> "float", s |-> s, f |-> f, str |-> <<>>]
\* a finite float of magnitude beyond timedelta.max (|days| > 999999999)
Big(sign) == [ty |-> "big", s |-> sign, f |-> 0, str |-> <<>>]
Inf(sign) == [ty |-> "inf", s |-> sign, f |-> 0, str |-> <<>>]
NaN == [ty |-> "nan", s |-> 0, f |-> 0, str |-> <<>>]
None == [ty |-> "None", s |-> 0, f |-> 0, str |-> <<>>]
Str(chars) == [ty |-> "str", s |-> 0, f |-> 0, str |-> chars]

\* round half to even of n / d, for n >= 0 and d > 0
RoundHalfEven(n, d) ==
    IF 2 * (n % d) < d THEN n \div d
    ELSE IF 2 * (n % d) > d THEN n \div d + 1
    ELSE IF (n \div d) % 2 = 0 THEN n \div d ELSE n \div d + 1

\* the float of a sign, whole seconds and a fraction in ticks
Signed(neg, whole, frac) ==
    IF ~neg \/ (whole = 0 /\ frac = 0) THEN Fin(whole, frac)
    ELSE IF frac = 0 THEN Fin(-whole, 0)
    ELSE Fin(-whole - 1, TicksPerSecond - frac)

\* the float written as the digits ip, a point and the digits fp
Decimal(neg, ip, fp) ==
    IF AllDigits(ip) /\ AllDigits(fp) /\ Len(ip) + Len(fp) >= 1 /\ Len(fp) <= 6
    THEN Ok(Signed(neg, StrToNat(ip),
                   StrToNat(fp) * Pow10(6 - Len(fp)) * TicksPerMicro))
    ELSE Raise("ValueError")

\* u is the text after the sign, dots the positions of "." in it
Unsigned(neg, u, dots) ==
    IF dots = {} THEN Decimal(neg, u, <<>>)
    ELSE IF Cardinality(dots) = 1
    THEN Decimal(neg, SubSeq(u, 1, SetMin(dots) - 1),
                 SubSeq(u, SetMin(dots) + 1, Len(u)))
    ELSE Raise("ValueError")

AfterSign(neg, u) == Unsigned(neg, u, {i \in 1..Len(u) : u[i] = "."})

Stripped(t) ==
    IF t # <<>> /\ t[1] \in {"-", "+"} THEN AfterSign(t[1] = "-", Tail(t))
    ELSE AfterSign(FALSE, t)

\* float(str): optional sign, digits, optional point and digits, surrounding
\* whitespace ignored; anything else is a ValueError
ParseFloat(chars) == Stripped(Strip(chars))

\* float(x)
PyFloat(x) ==
    CASE x.ty = "None" -> Raise("TypeError")
      [] x.ty = "str" -> ParseFloat(x.str)
      [] OTHER -> Ok(x)

(***************************************************************************)
(* format_time                                                             *)
(***************************************************************************)
SecondsPerDay == 86400
SecondsPerHour == 3600
SecondsPerMinute == 60
MicrosPerMilli == 1000

Sentinel == <<"0", "0", ":", "0", "0", ":", "0", "0", ",", "0", "0", "0">>

\* s whole seconds and us microseconds (0..1000000) normalised to days,
\* 0 <= seconds < 86400 and 0 <= microseconds < 1000000
Normalised(s, us) ==
    [days |-> (s + us \div 1000000) \div SecondsPerDay,
     seconds |-> (s + us \div 1000000) % SecondsPerDay,
     microseconds |-> us % 1000000]

\* timedelta(seconds=x): the value rounded to the nearest microsecond, ties
\* to even
TimeDelta(x) ==
    CASE x.ty = "nan" -> Raise("ValueError")
      [] x.ty \in {"inf", "big"} -> Raise("OverflowError")
      [] OTHER -> Ok(Normalised(x.s, RoundHalfEven(x.f, TicksPerMicro)))

\* line 41
Hmsm(hours, minutes, seconds, milliseconds) ==
    FmtD(hours, 2) \o <<":">> \o FmtD(minutes, 2) \o <<":">>
      \o FmtD(seconds, 2) \o <<",">> \o FmtD(milliseconds, 3)

\* milliseconds rounded instead of truncated: round(td.microseconds / 1000)
FormatFields_RoundMillis(td) ==
    Hmsm(td.seconds \div SecondsPerHour,
         (td.seconds % SecondsPerHour) \div SecondsPerMinute,
         (td.seconds % SecondsPerHour) % SecondsPerMinute,
         RoundHalfEven(td.microseconds, MicrosPerMilli))

\* lines 38-41
FormatFields(td) ==
    Hmsm(td.seconds \div SecondsPerHour,
         (td.seconds % SecondsPerHour) \div SecondsPerMinute,
         (td.seconds % SecondsPerHour) % SecondsPerMinute,
         td.microseconds \div MicrosPerMilli)

\* line 37 applied to the result of float()
TimeDeltaOf(fl) == IF fl.ok THEN TimeDelta(fl.val) ELSE fl

\* the try block returns the formatted fields, the except clause the sentinel
FormatOrSentinel(td) == IF td.ok THEN Ok(FormatFields(td.val)) ELSE Ok(Sentinel)

format_time(seconds) == FormatOrSentinel(TimeDeltaOf(PyFloat(seconds)))

(***************************************************************************)
(* Regular expressions (the subset of re that the patterns of              *)
(* remove_punctuation compile to)                                          *)
(***************************************************************************)
Unbounded == -1

In(set) == [op |-> "in", set |-> set, min |-> 1, max |-> 1]
Lit(c) == In({c})
Possessive(set, lo, hi) == [op |-> "possessive", set |-> set, min |-> lo, max |-> hi]
Greedy(set, lo, hi) == [op |-> "greedy", set |-> set, min |-> lo, max |-> hi]
AtBeginning == [op |-> "at_beginning", set |-> {}, min |-> 0, max |-> 0]
AtEnd == [op |-> "at_end", set |-> {}, min |-> 0, max |-> 0]
\* possessive repeat of the empty group: ()*+
EmptyGroupRepeat == [op |-> "empty", set |-> {}, min |-> 0, max |-> 0]

Lits(cs) == [i \in 1..Len(cs) |-> Lit(cs[i])]

\* the most characters a repeat with upper limit hi may take from pos
Limit(text, pos, hi) ==
    IF hi = Unbounded \/ hi > Len(text) - pos + 1 THEN Len(text) - pos + 1 ELSE hi

\* number of consecutive characters of set in text from pos, at most lim
RunUpTo(text, pos, set, lim) ==
    SetMin({n \in 0..lim : n = lim \/ text[pos + n] \notin set})

Run(text, pos, set, hi) == RunUpTo(text, pos, set, Limit(text, pos, hi))

\* the numbers of characters item it may take at pos; empty if it fails there
Advances(it, text, pos) ==
    CASE it.op = "in" ->
           IF pos <= Len(text) /\ text[pos] \in it.set THEN {1} ELSE {}
      [] it.op = "at_beginning" -> IF pos = 1 THEN {0} ELSE {}
      [] it.op = "at_end" ->
           IF pos = Len(text) + 1 \/ (pos = Len(text) /\ text[pos] = "\n")
           THEN {0} ELSE {}
      [] it.op = "empty" -> {0}
      [] it.op = "possessive" ->
           IF Run(text, pos, it.set, it.max) < it.min THEN {}
           ELSE {Run(text, pos, it.set, it.max)}
      [] OTHER -> it.min..Run(text, pos, it.set, it.max)

\* ends: pairs of a number of characters taken and the end of the match of
\* the rest of the pattern after it (-1: no match); the longest take that
\* lets the rest match wins
Preferred(ends) ==
    IF \A e \in ends : e[2] = -1 THEN -1
    ELSE (CHOOSE e \in ends :
            e[2] # -1 /\ \A g \in ends : g[2] # -1 => g[1] <= e[1])[2]

\* end position of the match of items k.. of p at pos, or -1
RECURSIVE MatchFrom(_, _, _, _)
MatchFrom(p, k, text, pos) ==
    IF k > Len(p) THEN pos
    ELSE Preferred({<<c, MatchFrom(p, k + 1, text, pos + c)>> :
                      c \in Advances(p[k], text, pos)})

FirstMatch(ends) ==
    IF \A a \in DOMAIN ends : ends[a] = -1 THEN -1
    ELSE ends[SetMin({a \in DOMAIN ends : ends[a] # -1})]

\* a pattern is a sequence of alternatives, tried in order
MatchAlt(alts, text, pos) ==
    FirstMatch([a \in 1..Len(alts) |-> MatchFrom(alts[a], 1, text, pos)])

\* what re.sub writes at pos when the match there ends at e
Piece(repl, text, pos, e) ==
    IF e = -1 THEN <<text[pos]>>
    ELSE IF e = pos THEN repl \o <<text[pos]>>
    ELSE repl

\* re.sub(pattern, repl, text) from position pos on; e is the end of the
\* match at pos
RECURSIVE SubFrom(_, _, _, _, _)
SubFrom(alts, repl, text, pos, e) ==
    IF pos > Len(text) THEN IF e = pos THEN repl ELSE <<>>
    ELSE Piece(repl, text, pos, e)
           \o SubFrom(alts, repl, text, IF e > pos THEN e ELSE pos + 1,
                      MatchAlt(alts, text, IF e > pos THEN e ELSE pos + 1))

ReSub(alts, repl, text) == SubFrom(alts, repl, text, 1, MatchAlt(alts, text, 1))

(***************************************************************************)
(* remove_punctuation                                                      *)
(***************************************************************************)
\* the pattern of line 29 as re compiles it: the "]" after the first "["
\* closes the character set, and the unescaped "|" splits the rest in two
\* alternatives
PunctSet1 == {"uFF0C", "u3002", "uFF01", "uFF1F", "uFF1B", "uFF1A", "\"", "'",
              "(", ")", "uFF08", "uFF09", "["}
PunctSet2 == {"]", "^", "_", "u0060", "{", "|", "}", "~"}

PunctAlt1 == <<In(PunctSet1)>>
               \o Lits(<<"u3010", "u3011", "u3001", "u00B7", "~", "@", "#",
                         "uFFE5", "%", "u2026">>)
               \o <<Possessive({"&"}, 0, Unbounded)>>
               \o Lits(<<"-", "=", "u300A", "u300B", "<", ">", "/", "\\">>)

PunctAlt2 == Lits(<<"{", "}">>) \o <<AtBeginning>>
               \o Lits(<<"_", "u0060", "u00B7", ",", ":", ";", "!", "\"">>)
               \o <<AtEnd>> \o Lits(<<"%", "&">>) \o <<EmptyGroupRepeat>>
               \o Lits(<<"-", "/", "<", "=">>) \o <<Greedy({">"}, 0, 1)>>
               \o <<Lit("@"), In(PunctSet2)>>

punctuation == <<PunctAlt1, PunctAlt2>>

\* the pattern of line 31: one or more whitespace characters
WhitespaceRun == <<(<<Greedy(Whitespace, 1, Unbounded)>>)>>

\* "&*+" is a possessive repeat (Python 3.11 and later)
remove_punctuation(text) ==
    Strip(ReSub(WhitespaceRun, <<" ">>, ReSub(punctuation, <<>>, text)))

(***************************************************************************)
(* convert_zh_text                                                         *)
(***************************************************************************)
Simplified == "zh-Hans"     \* the label of line 49
Traditional == "zh-Hant"    \* the label of line 51
English == "en"

\* OpenCC('t2s') and OpenCC('s2t') on the one character pair of the model:
\* u9AD4 is the traditional and u4F53 the simplified form
T2S(c) == IF c = "u9AD4" THEN "u4F53" ELSE c
S2T(c) == IF c = "u4F53" THEN "u9AD4" ELSE c

convert_zh_text(text, target_type) ==
    IF ~convOk THEN text
    ELSE IF target_type = Simplified THEN [i \in 1..Len(text) |-> T2S(text[i])]
    ELSE IF target_type = Traditional THEN [i \in 1..Len(text) |-> S2T(text[i])]
    ELSE text

(***************************************************************************)
(* generate_srt                                                            *)
(***************************************************************************)
Arrow == <<" ", "-", "-", ">", " ">>
NL == <<"\n">>

NoSource == [none |-> TRUE, items |-> <<>>]
Source(items) == [none |-> FALSE, items |-> items]

\* lines 59-60 and 69: the index line and the time-range line
BlockHead(idx, seg) ==
    NatToStr(idx) \o NL \o format_time(seg.start).val \o Arrow
      \o format_time(seg.end).val \o NL

\* lines 61-67
TargetText(text, target_lang) ==
    remove_punctuation(IF target_lang \in {Simplified, Traditional}
                       THEN convert_zh_text(text, target_lang)
                       ELSE text)

\* lines 69-75
BlockText(idx, head, target_text, source_texts, use_bilingual) ==
    IF use_bilingual /\ ~source_texts.none /\ source_texts.items # <<>>
    THEN IF idx > Len(source_texts.items) THEN Raise("IndexError")
         ELSE Ok(head \o remove_punctuation(Strip(source_texts.items[idx])) \o NL
                   \o target_text \o NL \o NL)
    ELSE Ok(head \o target_text \o NL \o NL)

\* blocks numbered from 0: enumerate(segments) without the start value
SrtBlock_ZeroBased(idx, seg, target_lang, source_texts, use_bilingual) ==
    BlockText(idx, BlockHead(idx - 1, seg), TargetText(Strip(seg.text), target_lang),
              source_texts, use_bilingual)

\* the text appended to srt_content for the segment at position idx
SrtBlock(idx, seg, target_lang, source_texts, use_bilingual) ==
    BlockText(idx, BlockHead(idx, seg), TargetText(Strip(seg.text), target_lang),
              source_texts, use_bilingual)

\* the concatenation of the texts of a sequence
RECURSIVE Flatten(_)
Flatten(ss) == IF ss = <<>> THEN <<>> ELSE Head(ss) \o Flatten(Tail(ss))

\* the blocks are appended in order; the first iteration that raises ends
\* the call
Collected(blocks) ==
    IF \A idx \in DOMAIN blocks : blocks[idx].ok
    THEN Ok(Flatten([idx \in DOMAIN blocks |-> blocks[idx].val]))
    ELSE blocks[SetMin({idx \in DOMAIN blocks : ~blocks[idx].ok})]

generate_srt(segments, target_lang, source_texts, use_bilingual) ==
    Collected([idx \in 1..Len(segments) |->
                 SrtBlock(idx, segments[idx], target_lang, source_texts,
                          use_bilingual)])

(***************************************************************************)
(* The edit step of main()                                                 *)
(***************************************************************************)
\* whole seconds, a point and cs hundredths (cs may be 100)
TwoDecimals(s, cs) ==
    NatToStr(s + cs \div 100) \o <<".">> \o FmtD(cs % 100, 2)

\* f"{x:.2f}" for a finite x >= 0
Format2f(x) == TwoDecimals(x.s, RoundHalfEven(x.f, TicksPerSecond \div 100))

\* lines 206-217: the segment appended for one row and whether the warning
\* of line 211 is shown; start_f and end_f are the results of float()
RowOf(seg, start_f, end_f, text_val) ==
    IF start_f.ok /\ end_f.ok
    THEN [seg |-> [start |-> start_f.val, end |-> end_f.val, text |-> text_val],
          warned |-> FALSE]
    ELSE [seg |-> [start |-> seg.start, end |-> seg.end, text |-> text_val],
          warned |-> TRUE]

EditedRow(seg, start_val, end_val, text_val) ==
    RowOf(seg, PyFloat(Str(start_val)), PyFloat(Str(end_val)), text_val)

\* line 202: the text shown in the text input of a row
DisplayText(seg, lang_option) ==
    Strip(IF lang_option \in {Simplified, Traditional}
          THEN convert_zh_text(seg.text, lang_option) ELSE seg.text)

(***************************************************************************)
(* Inputs                                                                  *)
(***************************************************************************)
SeqsUpTo(S, n) == UNION {[1..k -> S] : k \in 0..n}

SecSamples == {-5, -1, 0, 1, 59, 60, 3599, 3600, 86399, 86400, 86401, 360000}

FracSamples == {(ms * 1000 + us) * TicksPerMicro + q :
                  ms \in {0, 234, 999}, us \in {0, 999}, q \in 0..(TicksPerMicro - 1)}

Abc == <<"a", "b", "c">>

FtInputs == {Fin(s, f) : s \in SecSamples, f \in FracSamples}
              \cup {None, NaN, Inf(1), Inf(-1), Big(1), Big(-1), Str(Abc), Str(<<>>),
                    Str(<<"1", ".", "5">>), Str(<<"-", "1">>)}

FtSecondInputs == {Fin(s, 0) : s \in SecSamples}
                    \cup {Fin(1, 500000 * TicksPerMicro), Fin(86399, TicksPerSecond - 1)}

RpAlphabet == {"a", ",", "!", "uFF0C", " ", "\n"}

HelloWorld == <<"H", "e", "l", "l", "o", ",", " ", "w", "o", "r", "l", "d", "!">>

\* a text the first alternative of the pattern matches as a whole
Alt1Text == <<"(", "u3010", "u3011", "u3001", "u00B7", "~", "@", "#", "uFFE5", "%",
              "u2026", "&", "&", "-", "=", "u300A", "u300B", "<", ">", "/", "\\">>

\* the characters of the second alternative in pattern order
Alt2Text == <<"{", "}", "_", "u0060", "u00B7", ",", ":", ";", "!", "\"", "%", "&",
              "-", "/", "<", "=", ">", "@", "~">>

RpInputs == SeqsUpTo(RpAlphabet, MaxLen)
              \cup {HelloWorld, Alt1Text, <<"x">> \o Alt1Text \o <<"y">>, Alt2Text,
                    <<"?", ":", ";">>, <<"u3002", "uFF01", "uFF1F">>}

SrtSegSamples ==
    { [start |-> Fin(0, 0), end |-> Fin(1, 500000 * TicksPerMicro),
       text |-> <<" ", "a", ",", "\n", "b">>],
      [start |-> Fin(2, 0), end |-> Fin(3, 0), text |-> <<"u9AD4", "u3002">>],
      [start |-> Fin(86400, 234500 * TicksPerMicro), end |-> Str(Abc), text |-> <<>>] }

SrtSourceSamples == { <<"H", "i", ".">>, <<" ", "a", "\n">> }

SrtInputs ==
    [segments : SeqsUpTo(SrtSegSamples, MaxSegs),
     target_lang : {Simplified, English},
     source_texts : {NoSource} \cup {Source(l) : l \in SeqsUpTo(SrtSourceSamples, MaxSegs)},
     use_bilingual : BOOLEAN]

\* the k-th segment of the recognition result v
ResultSegment(k, v) ==
    IF (k + v) % 2 = 0
    THEN [start |-> Fin(2 * (k - 1), 234500 * TicksPerMicro),
          end |-> Fin(2 * (k - 1) + 1, 500000 * TicksPerMicro),
          text |-> <<" ", "u9AD4", ",">>]
    ELSE [start |-> Fin(2 * (k - 1), 500000 * TicksPerMicro),
          end |-> Fin(2 * k, 0),
          text |-> <<" ", "a", "\n">>]

Results == {[k \in 1..n |-> ResultSegment(k, v)] : n \in 0..MaxSegs, v \in 1..2}

\* what the user may type into a time input, and into a text input
UserTimeTexts == {<<"0", ".", "7", "5">>, Abc}
UserTexts == {<<"o", "k">>}

(***************************************************************************)
(* State machine                                                           *)
(***************************************************************************)
IdleMain ==
    /\ pc = "idle"
    /\ result = <<>>
    /\ options = [lang_option |-> English, use_bilingual |-> FALSE]
    /\ tempFile = "none"
    /\ segments_raw = <<>>
    /\ edits = <<>>
    /\ edited_segments = <<>>
    /\ warnings = {}
    /\ srt_content = <<>>

InitFormatTime ==
    /\ convOk = TRUE
    /\ args \in FtInputs \X FtSecondInputs
    /\ ret = <<>>
    /\ IdleMain

InitRemovePunctuation ==
    /\ convOk = TRUE
    /\ args \in {<<t>> : t \in RpInputs}
    /\ ret = <<>>
    /\ IdleMain

InitGenerateSrt ==
    /\ convOk \in BOOLEAN
    /\ args \in {<<a>> : a \in SrtInputs}
    /\ ret = <<>>
    /\ IdleMain

InitMain ==
    /\ convOk \in BOOLEAN
    /\ args = <<>> /\ ret = <<>>
    /\ pc = "start"
    /\ result = <<>>
    /\ options \in [lang_option : {Simplified, English}, use_bilingual : BOOLEAN]
    /\ tempFile = "none"
    /\ segments_raw = <<>>
    /\ edits = <<>>
    /\ edited_segments = <<>>
    /\ warnings = {}
    /\ srt_content = <<>>

\* one call of format_time on the next argument
FormatTimeCall ==
    /\ Len(ret) < Len(args)
    /\ ret' = Append(ret, format_time(args[Len(ret) + 1]))
    /\ UNCHANGED <<convOk, args, mainVars>>

\* one call of remove_punctuation
RemovePunctuationCall ==
    /\ Len(ret) < Len(args)
    /\ ret' = Append(ret, Ok(remove_punctuation(args[Len(ret) + 1])))
    /\ UNCHANGED <<convOk, args, mainVars>>

\* one call of generate_srt
GenerateSrtCall ==
    /\ Len(ret) < Len(args)
    /\ \E a \in {args[Len(ret) + 1]} :
         ret' = Append(ret, generate_srt(a.segments, a.target_lang,
                                         a.source_texts, a.use_bilingual))
    /\ UNCHANGED <<convOk, args, mainVars>>

\* lines 131-132: the model is loaded
LoadModel ==
    /\ pc = "start"
    /\ pc' = "model_loaded"
    /\ UNCHANGED <<convOk, pureVars, result, options, tempFile, segments_raw,
                   edits, edited_segments, warnings, srt_content>>

\* lines 133-134: load_whisper_model returned None and the run stops
LoadModelFails ==
    /\ pc = "start"
    /\ pc' = "stopped"
    /\ UNCHANGED <<convOk, pureVars, result, options, tempFile, segments_raw,
                   edits, edited_segments, warnings, srt_content>>

\* lines 137-140: the uploaded bytes are written to a file that outlives
\* the with block (delete=False)
WriteTempFile ==
    /\ pc = "model_loaded"
    /\ tempFile' = "exists"
    /\ pc' = "temp_written"
    /\ UNCHANGED <<convOk, pureVars, result, options, segments_raw, edits,
                   edited_segments, warnings, srt_content>>

\* line 176: model.transcribe returns a result
Transcribe ==
    /\ pc = "temp_written"
    /\ \E r \in Results : result' = r
    /\ pc' = "transcribed"
    /\ UNCHANGED <<convOk, pureVars, options, tempFile, segments_raw, edits,
                   edited_segments, warnings, srt_content>>

\* line 176: model.transcribe raises; the exception leaves main()
TranscribeRaises ==
    /\ pc = "temp_written"
    /\ pc' = "failed"
    /\ UNCHANGED <<convOk, pureVars, result, options, tempFile, segments_raw,
                   edits, edited_segments, warnings, srt_content>>

\* lines 179-189: the temporary file is deleted and the segments extracted
UnlinkAndExtract ==
    /\ pc = "transcribed"
    /\ tempFile' = "deleted"
    /\ segments_raw' = [k \in 1..Len(result) |->
                          [start |-> result[k].start, end |-> result[k].end,
                           text |-> Strip(result[k].text)]]
    /\ pc' = "editing"
    /\ UNCHANGED <<convOk, pureVars, result, options, edits, edited_segments,
                   warnings, srt_content>>

\* lines 194-217: one iteration of the edit loop; the user has left each
\* input at its default or typed something else
EditRow ==
    /\ pc = "editing"
    /\ Len(edited_segments) < Len(segments_raw)
    /\ \E idx \in {Len(edited_segments) + 1} :
       \E seg \in {segments_raw[idx]} :
       \E start_default \in {Format2f(seg.start)},
          end_default \in {Format2f(seg.end)},
          text_default \in {DisplayText(seg, options.lang_option)} :
       \E start_val \in {start_default} \cup UserTimeTexts,
          end_val \in {end_default} \cup UserTimeTexts,
          text_val \in {text_default} \cup UserTexts :
       \E row \in {EditedRow(seg, start_val, end_val, text_val)} :
         /\ edits' = Append(edits, [start_val |-> start_val,
                                    end_val |-> end_val,
                                    text_val |-> text_val,
                                    start_changed |-> start_val # start_default,
                                    end_changed |-> end_val # end_default])
         /\ edited_segments' = Append(edited_segments, row.seg)
         /\ warnings' = IF row.warned THEN warnings \cup {idx} ELSE warnings
    /\ UNCHANGED <<convOk, pureVars, pc, result, options, tempFile,
                   segments_raw, srt_content>>

\* lines 189 and 221: the document is generated from the edited segments
Export ==
    /\ pc = "editing"
    /\ Len(edited_segments) = Len(segments_raw)
    /\ \E source_texts \in {Source([k \in 1..Len(segments_raw) |->
                                       segments_raw[k].text])} :
       \E r \in {generate_srt(edited_segments, options.lang_option, source_texts,
                              options.use_bilingual)} :
         IF r.ok
         THEN srt_content' = r.val /\ pc' = "done"
         ELSE srt_content' = srt_content /\ pc' = "failed"
    /\ UNCHANGED <<convOk, pureVars, result, options, tempFile, segments_raw,
                   edits, edited_segments, warnings>>

NextFormatTime == FormatTimeCall
NextRemovePunctuation == RemovePunctuationCall
NextGenerateSrt == GenerateSrtCall
NextMain ==
    \/ LoadModel
    \/ LoadModelFails
    \/ WriteTempFile
    \/ Transcribe
    \/ TranscribeRaises
    \/ UnlinkAndExtract
    \/ EditRow
    \/ Export

SpecFormatTime == InitFormatTime /\ [][NextFormatTime]_vars
SpecRemovePunctuation == InitRemovePunctuation /\ [][NextRemovePunctuation]_vars
SpecGenerateSrt == InitGenerateSrt /\ [][NextGenerateSrt]_vars
SpecMain == InitMain /\ [][NextMain]_vars

TypeOK ==
    /\ convOk \in BOOLEAN
    /\ Len(ret) <= Len(args)
    /\ pc \in {"idle", "start", "stopped", "model_loaded", "temp_written",
               "transcribed", "editing", "done", "failed"}
    /\ tempFile \in {"none", "exists", "deleted"}
    /\ Len(edited_segments) <= Len(segments_raw)
    /\ Len(edits) = Len(edited_segments)

(***************************************************************************)
(* Reading a document and a timestamp back                                 *)
(***************************************************************************)
FirstNewline(s) ==
    LET nls == {i \in 1..Len(s) : s[i] = "\n"}
    IN  IF nls = {} THEN 0 ELSE CHOOSE i \in nls : \A j \in nls : i <= j

\* the lines of a text, each ended by a newline (a last line may lack it)
RECURSIVE SplitLines(_)
SplitLines(s) ==
    IF s = <<>> THEN <<>>
    ELSE LET n == FirstNewline(s)
         IN  IF n = 0 THEN <<s>>
             ELSE <<SubSeq(s, 1, n - 1)>> \o SplitLines(SubSeq(s, n + 1, Len(s)))

\* HH:MM:SS,mmm with two-digit HH, MM, SS, three-digit mmm, MM and SS <= 59
IsTimestamp(ts) ==
    /\ Len(ts) = 12
    /\ \A i \in {1, 2, 4, 5, 7, 8, 10, 11, 12} : IsDigit(ts[i])
    /\ ts[3] = ":" /\ ts[6] = ":" /\ ts[9] = ","
    /\ StrToNat(SubSeq(ts, 4, 5)) <= 59
    /\ StrToNat(SubSeq(ts, 7, 8)) <= 59

\* the time a timestamp denotes, in milliseconds
TsMillis(ts) ==
    StrToNat(SubSeq(ts, 1, 2)) * 3600000 + StrToNat(SubSeq(ts, 4, 5)) * 60000
      + StrToNat(SubSeq(ts, 7, 8)) * 1000 + StrToNat(SubSeq(ts, 10, 12))

\* x is a number of seconds >= 0 (finite)
IsNonNegNumber(x) == x.ty \in {"float", "big"} /\ x.s >= 0

\* t1 <= t2 for finite floats inside timedelta's range
Leq(t1, t2) == t1.s < t2.s \/ (t1.s = t2.s /\ t1.f <= t2.f)

\* every character written in the pattern of remove_punctuation
PunctuationChars ==
    PunctSet1 \cup PunctSet2
      \cup {"u3010", "u3011", "u3001", "u00B7", "~", "@", "#", "uFFE5", "%", "u2026",
            "&", "*", "+", "-", "=", "u300A", "u300B", "<", ">", "/", "\\", "|",
            "{", "}", "^", "_", "u0060", ",", ":", ";", "!", "$", "?"}

TimeRange(seg) == format_time(seg.start).val \o Arrow \o format_time(seg.end).val

(***************************************************************************)
(* Claims                                                                  *)
(***************************************************************************)

\* C1: remove_punctuation returns normally for every input and its result
\* contains no character of the punctuation set written in its pattern.
C1_NoPunctuationLeft ==
    \A i \in 1..Len(ret) :
        /\ ret[i].ok
        /\ \A j \in 1..Len(ret[i].val) : ret[i].val[j] \notin PunctuationChars

\* C2: format_time never raises, and for every input that is not a
\* non-negative number it returns the sentinel 00:00:00,000.
C2_SentinelUnlessNonNegative ==
    \A i \in 1..Len(ret) :
        /\ ret[i].ok
        /\ ~IsNonNegNumber(args[i]) => ret[i].val = Sentinel

\* C7: for every non-negative number of seconds, of any magnitude,
\* format_time returns 12 characters HH:MM:SS,mmm with MM and SS at most 59.
C7_FixedWidthTimestamp ==
    \A i \in 1..Len(ret) :
        IsNonNegNumber(args[i]) => ret[i].ok /\ IsTimestamp(ret[i].val)

C7_Witness ==
    /\ Len(ret) >= 1
    /\ args[1].ty = "float" /\ args[1].s >= SecondsPerDay /\ args[1].f > 0
    /\ IsTimestamp(ret[1].val)

\* C8: format_time is monotonic non-decreasing over the whole non-negative
\* range: 0 <= t1 <= t2 implies the time of format_time(t1) is at most that
\* of format_time(t2).
C8_Monotonic ==
    (/\ Len(ret) = 2
     /\ args[1].ty = "float" /\ args[2].ty = "float"
     /\ args[1].s >= 0 /\ Leq(args[1], args[2]))
    => TsMillis(ret[1].val) <= TsMillis(ret[2].val)

\* C9 as stated: for 0 <= t < 86400 the timestamp denotes exactly
\* floor(t * 1000) milliseconds; no remainder below a millisecond is ever
\* carried upward.
C9_ExactFloor ==
    \A i \in 1..Len(ret) :
        (args[i].ty = "float" /\ args[i].s >= 0 /\ args[i].s < SecondsPerDay)
        => TsMillis(ret[i].val)
             = args[i].s * 1000 + args[i].f \div (1000 * TicksPerMicro)

\* the number of milliseconds in t once t is rounded to the nearest
\* microsecond, ties to even
MillisOfRounded(t) == t.s * 1000 + RoundHalfEven(t.f, TicksPerMicro) \div 1000

\* C9 amended: for t >= 0 whose value rounded to the nearest microsecond is
\* below 86400 seconds, the timestamp denotes the whole milliseconds of that
\* rounded value: microseconds are truncated to milliseconds, but a
\* remainder within half a microsecond of the next millisecond carries.
C9_FloorOfRoundedMicros ==
    \A i \in 1..Len(ret) :
        (/\ args[i].ty = "float" /\ args[i].s >= 0
         /\ MillisOfRounded(args[i]) < SecondsPerDay * 1000)
        => TsMillis(ret[i].val) = MillisOfRounded(args[i])

C9_Witness ==
    /\ Len(ret) >= 1
    /\ args[1].ty = "float" /\ args[1].s >= 0
    /\ MillisOfRounded(args[1]) < SecondsPerDay * 1000
    /\ MillisOfRounded(args[1])
         > args[1].s * 1000 + args[1].f \div (1000 * TicksPerMicro)
    /\ TsMillis(ret[1].val) = MillisOfRounded(args[1])

\* C3: every returned document has exactly two text lines per block when
\* use_bilingual is true (normalized source text of the position, then the
\* target text) and exactly one when it is false, for every source_texts.
C3_TextLinesPerBlock ==
    \A i \in 1..Len(ret) :
        ret[i].ok =>
          LET a == args[i]
              n == Len(a.segments)
              lines == SplitLines(ret[i].val)
              size == IF a.use_bilingual THEN 5 ELSE 4
          IN  /\ Len(lines) = n * size
              /\ \A k \in 1..n :
                    /\ lines[(k - 1) * size + 1] = NatToStr(k)
                    /\ lines[(k - 1) * size + 2] = TimeRange(a.segments[k])
                    /\ lines[k * size] = <<>>
                    /\ a.use_bilingual =>
                         /\ k <= Len(a.source_texts.items)
                         /\ lines[(k - 1) * size + 3]
                              = remove_punctuation(Strip(a.source_texts.items[k]))

\* C4: the document returned for N segments consists of exactly N blocks in
\* segment order; block k begins with the index line k, then the line
\* format_time(start_k) --> format_time(end_k), and ends with a blank line.
C4_BlocksInOrder ==
    \A i \in 1..Len(ret) :
        ret[i].ok =>
          LET a == args[i]
              n == Len(a.segments)
              lines == SplitLines(ret[i].val)
          IN  \E size \in {4, 5} :
                /\ Len(lines) = n * size
                /\ \A k \in 1..n :
                      /\ lines[(k - 1) * size + 1] = NatToStr(k)
                      /\ lines[(k - 1) * size + 2] = TimeRange(a.segments[k])
                      /\ lines[k * size] = <<>>

C4_Witness ==
    /\ Len(ret) = 1 /\ ret[1].ok
    /\ Len(args[1].segments) >= 2
    /\ args[1].segments[1] # args[1].segments[2]
    /\ \E j \in 1..Len(args[1].segments[2].text) : args[1].segments[2].text[j] = "\n"
    /\ Len(SplitLines(ret[1].val)) = 5 * Len(args[1].segments)

\* C5: in the edit step the start and end fields of a row are replaced
\* independently: a field that parses keeps its edited value, a field that
\* does not parse reverts to the model-produced value with a warning.
C5_FieldsIndependent ==
    \A k \in 1..Len(edits) :
        LET s == PyFloat(Str(edits[k].start_val))
            e == PyFloat(Str(edits[k].end_val))
        IN  /\ edited_segments[k].start = IF s.ok THEN s.val ELSE segments_raw[k].start
            /\ edited_segments[k].end = IF e.ok THEN e.val ELSE segments_raw[k].end
            /\ (~s.ok \/ ~e.ok) => k \in warnings

\* C6: no run of the upload pipeline ends with the temporary audio file
\* still existing, whether model.transcribe returned or raised.
C6_TempFileReleased ==
    pc \in {"done", "failed", "stopped"} => tempFile # "exists"

\* C10: if the user changes no time field of a segment, the time-range line
\* of its block in the exported document is computed from the
\* model-produced start and end at full millisecond precision.
C10_UneditedTimesKept ==
    pc = "done" =>
      LET lines == SplitLines(srt_content)
          size == Len(lines) \div Len(segments_raw)
      IN  \A k \in 1..Len(segments_raw) :
            (~edits[k].start_changed /\ ~edits[k].end_changed)
            => lines[(k - 1) * size + 2] = TimeRange(segments_raw[k])

====
